---- MODULE Spec2Model ----
(***************************************************************************)
(* The per-turn fleet decision engine of MyBot.cpp: the ReturnScheduler    *)
(* (returning set and priority slot, kept across turns) and the main loop  *)
(* (sort, per-ship status update, classification, harvest selection,       *)
(* conflict check on targeted positions, spawn test, end of turn).         *)
(*                                                                         *)
(* What the engine supplies is input: the turn number, the fleet (ids,     *)
(* positions, carried halite), the halite and occupancy of the cells a     *)
(* ship looks at, the player's halite, the direction naive_navigate        *)
(* returns and the result of end_turn.                                     *)
(***************************************************************************)
EXTENDS Integers, Sequences, FiniteSets, TLC

\* ---------------------------------------------------------------- bounds
Width == 2
Height == 2
MaxShips == 2
MaxFleet == 3
RunShips == 1

\* ------------------------------------------------------------- constants
RETURN_THRESHOLD_TURNS == 25
RETURN_TO_BASE == 220
\* SHIP_FULL_THRESHOLD = 0.9 and RETURN_HALITE_THRESHOLD = 0.5 as exact
\* fractions: MAX_HALITE * 0.9 and MAX_HALITE * 0.5 are the doubles 900.0 and
\* 500.0, so the comparisons with the integer ship->halite are exact.
SHIP_FULL_NUM == 9
SHIP_FULL_DEN == 10
RETURN_HALITE_NUM == 1
RETURN_HALITE_DEN == 2
\* engine constants (hlt::constants), the values of a standard game
MAX_TURNS == 400
MAX_HALITE == 1000
SHIP_COST == 1000

\* the turn numbers, carried amounts, cell amounts and funds the engine sends
TurnValues == {1, RETURN_TO_BASE, RETURN_TO_BASE + 1,
               MAX_TURNS - RETURN_THRESHOLD_TURNS,
               MAX_TURNS - RETURN_THRESHOLD_TURNS + 1}
FleetTurnValues == {RETURN_TO_BASE}
ShipHaliteValues == {0, (MAX_HALITE * RETURN_HALITE_NUM) \div RETURN_HALITE_DEN,
                     (MAX_HALITE * SHIP_FULL_NUM) \div SHIP_FULL_DEN}
CellHaliteValues == {0, MAX_HALITE \div 20, MAX_HALITE \div 10,
                     MAX_HALITE \div 5}
FundValues == {SHIP_COST - 1, SHIP_COST}

\* ------------------------------------------------------------- positions
Positions == (0 .. Width - 1) \X (0 .. Height - 1)
NoPosition == <<-1, -1>>
NoShip == 0

\* the view of a ship for which none is kept
NoView == [halite |-> <<>>, others |-> {}, target |-> NoPosition]

ALL_CARDINALS == <<"n", "s", "e", "w">>
Directions == {"n", "s", "e", "w", "o"}

DX(d) == CASE d = "e" -> 1 [] d = "w" -> -1 [] OTHER -> 0
DY(d) == CASE d = "s" -> 1 [] d = "n" -> -1 [] OTHER -> 0

\* Position::directional_offset, with the wraparound of the grid
directional_offset(p, d) ==
    <<(p[1] + DX(d) + Width) % Width, (p[2] + DY(d) + Height) % Height>>

\* me->shipyard->position: fixed for the game
SHIPYARD == <<0, 0>>

VARIABLES
    pc,                      \* position of main in its loop
    turn_number,             \* game.turn_number
    returning_ships,         \* ReturnScheduler::returning_ships
    current_returning_ship,  \* ReturnScheduler::current_returning_ship (id)
    rule4_ships,             \* history: ids inserted by the priority rule
    sticky,                  \* history: ids classified returning, not seen
                             \* on the shipyard since
    owned,                   \* keys of me->ships
    lost,                    \* history: ids of ships the engine removed
    sorted_ships,            \* sorted_ships of this turn
    idx,                     \* position of the for loop in sorted_ships
    command_queue,           \* command_queue of this turn
    targeted_positions,      \* targeted_positions of this turn
    decisions,               \* history: per processed ship, what was decided
    seen,                    \* history: what game_map showed the ship the loop
                             \* has just decided (kept only where a
                             \* specification asks, and until the next step)
    me_halite,               \* me->halite as read by the spawn test
    shipyard_occupied        \* is_occupied() of the shipyard cell, same read

vars == <<pc, turn_number, returning_ships, current_returning_ship,
          rule4_ships, sticky, owned, lost, sorted_ships, idx, command_queue,
          targeted_positions, decisions, seen, me_halite, shipyard_occupied>>

scheduler == <<returning_ships, current_returning_ship, rule4_ships, sticky>>
turn_locals == <<sorted_ships, idx, command_queue, targeted_positions, decisions,
                 seen>>
spawn_view == <<me_halite, shipyard_occupied>>

\* ------------------------------------------------------------------ sort
\* the comparator with the comparison turned round
ShipHaliteAscending(a, b) == a.halite < b.halite

\* ShipHaliteComparator
ShipHaliteComparator(a, b) == a.halite > b.halite

\* what std::sort may leave: every arrangement of the ships in which no ship
\* is placed after one the comparator puts it before
IsSortedBy(s) ==
    \A i \in 1 .. Len(s) : \A j \in 1 .. Len(s) :
        i < j => ~ShipHaliteComparator(s[j], s[i])

\* the fleet in any order: the call of sort left out
SortOutcomesUnsorted(ships) ==
    {s \in [1 .. Cardinality(ships) -> ships] :
        \A i \in 1 .. Len(s) : \A j \in 1 .. Len(s) : i # j => s[i] # s[j]}

SortOutcomes(ships) ==
    {s \in [1 .. Cardinality(ships) -> ships] :
        /\ \A i \in 1 .. Len(s) : \A j \in 1 .. Len(s) : i # j => s[i] # s[j]
        /\ IsSortedBy(s)}

\* the fleets the engine may send: distinct ids on distinct cells, and a ship
\* on the shipyard has unloaded (the engine takes its halite on arrival)
Fleets(ids) ==
    UNION {{ {[id |-> i, halite |-> h[i], position |-> p[i]] : i \in alive} :
                <<h, p>> \in
                    {hp \in [alive -> ShipHaliteValues] \X [alive -> Positions] :
                        /\ \A i \in alive : \A j \in alive :
                               i # j => hp[2][i] # hp[2][j]
                        /\ \A i \in alive :
                               hp[2][i] = SHIPYARD => hp[1][i] = 0} }
           : alive \in SUBSET ids}

\* ------------------------------------------------------- ReturnScheduler
\* the four tests of should_return, in the order of the code
AlreadyReturning(ship, ret) == ship.id \in ret

\* the endgame test with > for >=
IsEndgameStrict(turn) == turn > MAX_TURNS - RETURN_THRESHOLD_TURNS

IsEndgame(turn) == turn >= MAX_TURNS - RETURN_THRESHOLD_TURNS

IsFull(ship) == ship.halite * SHIP_FULL_DEN >= MAX_HALITE * SHIP_FULL_NUM

IsPriority(ship, cur, sorted) ==
    /\ cur = NoShip
    /\ ship = sorted[1]
    /\ ship.halite * RETURN_HALITE_DEN >= MAX_HALITE * RETURN_HALITE_NUM

\* the priority test placed before the test for a full ship
ReturnRulePriorityFirst(ship, turn, sorted, ret, cur) ==
    IF AlreadyReturning(ship, ret) THEN 1
    ELSE IF IsEndgame(turn) THEN 2
    ELSE IF IsPriority(ship, cur, sorted) THEN 4
    ELSE IF IsFull(ship) THEN 3
    ELSE 5

\* which return statement of should_return is reached: 1..4 true, 5 false
ReturnRule(ship, turn, sorted, ret, cur) ==
    IF AlreadyReturning(ship, ret) THEN 1
    ELSE IF IsEndgame(turn) THEN 2
    ELSE IF IsFull(ship) THEN 3
    ELSE IF IsPriority(ship, cur, sorted) THEN 4
    ELSE 5

\* should_return without the insert of line 60: rule 4 sets the slot only
should_return_slot_only(ship, turn, sorted, ret, cur) ==
    LET r == ReturnRule(ship, turn, sorted, ret, cur) IN
    [result  |-> r # 5,
     rule    |-> r,
     ret     |-> IF r \in {2, 3} THEN ret \cup {ship.id} ELSE ret,
     cur     |-> IF r = 4 THEN ship.id ELSE cur]

should_return(ship, turn, sorted, ret, cur) ==
    LET r == ReturnRule(ship, turn, sorted, ret, cur) IN
    [result  |-> r # 5,
     rule    |-> r,
     ret     |-> IF r \in {2, 3, 4} THEN ret \cup {ship.id} ELSE ret,
     cur     |-> IF r = 4 THEN ship.id ELSE cur]

\* update_status taking an empty ship for one that has unloaded
update_status_ret_on_empty(ship, base_pos, ret) ==
    IF ship.position = base_pos \/ ship.halite = 0 THEN ret \ {ship.id} ELSE ret

\* update_status that erases the id and leaves the slot
update_status_cur_kept(ship, base_pos, cur) == cur

\* update_status: the returning set and the slot after the call
update_status_ret(ship, base_pos, ret) ==
    IF ship.position = base_pos THEN ret \ {ship.id} ELSE ret

\* update_status with the test of the position negated for the slot
update_status_cur_away(ship, base_pos, cur) ==
    IF ship.position # base_pos /\ cur # NoShip /\ cur = ship.id
    THEN NoShip ELSE cur

update_status_cur(ship, base_pos, cur) ==
    IF ship.position = base_pos /\ cur # NoShip /\ cur = ship.id
    THEN NoShip ELSE cur

\* ------------------------------------------------------------------ Init
Init ==
    /\ pc = "update_frame"
    /\ turn_number = 0
    /\ returning_ships = {}
    /\ current_returning_ship = NoShip
    /\ rule4_ships = {}
    /\ sticky = {}
    /\ owned = {}
    /\ lost = {}
    /\ sorted_ships = <<>>
    /\ idx = 1
    /\ command_queue = <<>>
    /\ targeted_positions = {}
    /\ decisions = <<>>
    /\ seen = NoView
    /\ me_halite = 0
    /\ shipyard_occupied = FALSE

\* UpdateFrame with the break of line 187 left out: the loop reads the next
\* frame also after end_turn has returned false
UpdateFrameAfterExit(ids, turns) ==
    /\ pc \in {"update_frame", "done"}
    /\ \E t \in turns :
        /\ t > turn_number
        /\ turn_number' = t
    /\ \E fleet \in Fleets(ids \ lost) :
        /\ owned' = {s.id : s \in fleet}
        /\ lost' = lost \cup (owned \ owned')
        /\ \E s \in SortOutcomes(fleet) : sorted_ships' = s
        /\ pc' = IF fleet = {} THEN "spawn" ELSE "update_status"
    /\ idx' = 1
    /\ command_queue' = <<>>
    /\ targeted_positions' = {}
    /\ decisions' = <<>>
    /\ seen' = NoView
    /\ UNCHANGED <<scheduler, spawn_view>>

\* ---------------------------------------------------------------- actions
\* game.update_frame and the sort of the fleet (lines 103-115)
UpdateFrame(ids, turns) ==
    /\ pc = "update_frame"
    /\ \E t \in turns :
        /\ t > turn_number
        /\ turn_number' = t
    /\ \E fleet \in Fleets(ids \ lost) :
        /\ owned' = {s.id : s \in fleet}
        /\ lost' = lost \cup (owned \ owned')
        /\ \E s \in SortOutcomes(fleet) : sorted_ships' = s
        /\ pc' = IF fleet = {} THEN "spawn" ELSE "update_status"
    /\ idx' = 1
    /\ command_queue' = <<>>
    /\ targeted_positions' = {}
    /\ decisions' = <<>>
    /\ seen' = NoView
    /\ UNCHANGED <<scheduler, spawn_view>>

\* return_scheduler.update_status(ship, me->shipyard->position) (line 120)
UpdateStatus ==
    /\ pc = "update_status"
    /\ LET ship == sorted_ships[idx] IN
        /\ returning_ships' = update_status_ret(ship, SHIPYARD, returning_ships)
        /\ current_returning_ship' =
               update_status_cur(ship, SHIPYARD, current_returning_ship)
        /\ rule4_ships' = IF ship.position = SHIPYARD
                          THEN rule4_ships \ {ship.id} ELSE rule4_ships
        /\ sticky' = IF ship.position = SHIPYARD
                     THEN sticky \ {ship.id} ELSE sticky
    /\ pc' = "should_return"
    /\ seen' = NoView
    /\ UNCHANGED <<turn_number, owned, lost, sorted_ships, idx, command_queue,
                   targeted_positions, decisions, spawn_view>>

\* ------------------------------------------------------- harvest selection
\* the cells a ship reads: its own and its four neighbours
Near(p) == {p} \cup {directional_offset(p, ALL_CARDINALS[k]) : k \in 1 .. 4}

OwnAt(p) == \E i \in 1 .. Len(sorted_ships) : sorted_ships[i].position = p

\* what game_map shows a ship: the halite of the cells near it and the cells
\* near it that hold a ship of another player
Views(ship) ==
    [halite : [Near(ship.position) -> CellHaliteValues],
     others : SUBSET {q \in Near(ship.position) \ {ship.position} : ~OwnAt(q)}]

is_occupied(view, p) == OwnAt(p) \/ p \in view.others

\* the scan of ALL_CARDINALS (lines 145-157), from direction k on
RECURSIVE Scan(_, _, _, _, _)
Scan(ship, view, k, best_position, max_halite) ==
    IF k > Len(ALL_CARDINALS) THEN best_position
    ELSE LET pos == directional_offset(ship.position, ALL_CARDINALS[k])
             halite == view.halite[pos]
         IN IF ~is_occupied(view, pos) /\ halite > max_halite
            THEN Scan(ship, view, k + 1, pos, halite)
            ELSE Scan(ship, view, k + 1, best_position, max_halite)

\* BestPosition with max_halite starting at 0 instead of the halite of the
\* ship's own cell
BestPositionFromZero(ship, view) ==
    Scan(ship, view, 1, ship.position, 0)

BestPosition(ship, view) ==
    Scan(ship, view, 1, ship.position, view.halite[ship.position])

\* IsRichCell with > in place of >=
IsRichCellStrict(ship, view) == view.halite[ship.position] > MAX_HALITE \div 10

\* line 139
IsRichCell(ship, view) == view.halite[ship.position] >= MAX_HALITE \div 10

\* -------------------------------------------------------------- commands
MoveCommand(ship, d) == [type |-> "move", id |-> ship.id, dir |-> d]
StayStill(ship) == [type |-> "stay", id |-> ship.id, dir |-> "o"]
SpawnCommand == [type |-> "spawn", id |-> NoShip, dir |-> "o"]

\* Resolve with the else branch of the conflict test left out: nothing is
\* pushed for a ship whose destination is taken
ResolveDropsOnConflict(ship, d, targeted) ==
    LET target_position == directional_offset(ship.position, d) IN
    IF target_position \notin targeted
    THEN [commands |-> <<MoveCommand(ship, d)>>,
          targeted |-> targeted \cup {target_position},
          want |-> target_position]
    ELSE [commands |-> <<>>,
          targeted |-> targeted,
          want |-> target_position]

\* Resolve without the test of targeted_positions
ResolveAlwaysMoves(ship, d, targeted) ==
    LET target_position == directional_offset(ship.position, d) IN
    [commands |-> <<MoveCommand(ship, d)>>,
     targeted |-> targeted \cup {target_position},
     want |-> target_position]

\* Resolve with the ship's own position looked up in targeted_positions
\* instead of target_position
ResolveChecksOwnCell(ship, d, targeted) ==
    LET target_position == directional_offset(ship.position, d) IN
    IF ship.position \notin targeted
    THEN [commands |-> <<MoveCommand(ship, d)>>,
          targeted |-> targeted \cup {target_position},
          want |-> target_position]
    ELSE [commands |-> <<StayStill(ship)>>,
          targeted |-> targeted,
          want |-> target_position]

\* "Ensure no position conflict" (lines 125-134 and 162-171)
Resolve(ship, d, targeted) ==
    LET target_position == directional_offset(ship.position, d) IN
    IF target_position \notin targeted
    THEN [commands |-> <<MoveCommand(ship, d)>>,
          targeted |-> targeted \cup {target_position},
          want |-> target_position]
    ELSE [commands |-> <<StayStill(ship)>>,
          targeted |-> targeted,
          want |-> target_position]

\* Stay with the ship's own cell put into targeted_positions
StayClaimsCell(ship, targeted) ==
    [commands |-> <<StayStill(ship)>>,
     targeted |-> targeted \cup {ship.position},
     want |-> NoPosition]

\* stay_still without a navigation step (lines 140 and 174)
Stay(ship, targeted) ==
    [commands |-> <<StayStill(ship)>>, targeted |-> targeted,
     want |-> NoPosition]

\* OutcomesIn with the test of the ship's own cell (line 139) made before the
\* test of should_return (line 123)
OutcomesInHarvestFirst(ship, returning, targeted, view) ==
    IF IsRichCell(ship, view)
    THEN {[branch |-> "collect", target |-> NoPosition] @@ Stay(ship, targeted)}
    ELSE IF returning
         THEN {[branch |-> "return", target |-> SHIPYARD]
                   @@ Resolve(ship, d, targeted) : d \in Directions}
         ELSE LET best_position == BestPosition(ship, view) IN
              IF best_position # ship.position
              THEN {[branch |-> "explore", target |-> best_position]
                        @@ Resolve(ship, d, targeted) : d \in Directions}
              ELSE {[branch |-> "stay", target |-> best_position]
                        @@ Stay(ship, targeted)}

\* the body of the for loop after should_return (lines 123-175) for one view
\* of the map: what the ship may push on the queue, over the directions
\* naive_navigate may return; target is the position the ship is sent to
\* (the shipyard, or best_position once the scan has computed it)
OutcomesIn(ship, returning, targeted, view) ==
    IF returning
    THEN {[branch |-> "return", target |-> SHIPYARD]
              @@ Resolve(ship, d, targeted) : d \in Directions}
    ELSE IF IsRichCell(ship, view)
         THEN {[branch |-> "collect", target |-> NoPosition]
                   @@ Stay(ship, targeted)}
         ELSE LET best_position == BestPosition(ship, view) IN
              IF best_position # ship.position
              THEN {[branch |-> "explore", target |-> best_position]
                        @@ Resolve(ship, d, targeted) : d \in Directions}
              ELSE {[branch |-> "stay", target |-> best_position]
                        @@ Stay(ship, targeted)}

\* the same over the views of the map
Outcomes(ship, returning, targeted) ==
    UNION {OutcomesIn(ship, returning, targeted, view) : view \in Views(ship)}

\* the pairs of a view, with the target chosen in it, and an outcome in it;
\* the view is kept when record
Choices(ship, returning, targeted, record) ==
    IF record
    THEN UNION {{<<view @@ [target |-> o.target], o>> :
                    o \in OutcomesIn(ship, returning, targeted, view)} :
                   view \in Views(ship)}
    ELSE {<<NoView, o>> : o \in Outcomes(ship, returning, targeted)}

\* the spawn test with < for <=
ShouldSpawnStrict(turn, funds, occupied) ==
    /\ turn < RETURN_TO_BASE
    /\ funds >= SHIP_COST
    /\ ~occupied

\* lines 179-181
ShouldSpawn(turn, funds, occupied) ==
    /\ turn <= RETURN_TO_BASE
    /\ funds >= SHIP_COST
    /\ ~occupied

\* should_return and the rest of the loop body for sorted_ships[idx]
Decide(record) ==
    /\ pc = "should_return"
    /\ LET ship == sorted_ships[idx]
           sr == should_return(ship, turn_number, sorted_ships,
                               returning_ships, current_returning_ship)
       IN
        /\ returning_ships' = sr.ret
        /\ current_returning_ship' = sr.cur
        /\ rule4_ships' = IF sr.rule = 4 THEN rule4_ships \cup {ship.id}
                          ELSE rule4_ships
        /\ sticky' = IF sr.result THEN sticky \cup {ship.id} ELSE sticky
        /\ \E c \in Choices(ship, sr.result, targeted_positions, record) :
            LET o == c[2] IN
            /\ seen' = c[1]
            /\ command_queue' = command_queue \o o.commands
            /\ targeted_positions' = o.targeted
            /\ decisions' = Append(decisions,
                   [id |-> ship.id, returning |-> sr.result, rule |-> sr.rule,
                    branch |-> o.branch, want |-> o.want])
    /\ idx' = idx + 1
    /\ pc' = IF idx = Len(sorted_ships) THEN "spawn" ELSE "update_status"
    /\ UNCHANGED <<turn_number, owned, lost, sorted_ships, spawn_view>>

\* the spawn test (lines 179-183)
Spawn ==
    /\ pc = "spawn"
    /\ \E funds \in FundValues : \E other \in BOOLEAN :
        LET occupied == OwnAt(SHIPYARD) \/ other IN
        /\ me_halite' = funds
        /\ shipyard_occupied' = occupied
        /\ command_queue' = IF ShouldSpawn(turn_number, funds, occupied)
                            THEN Append(command_queue, SpawnCommand)
                            ELSE command_queue
    /\ pc' = "end_turn"
    /\ seen' = NoView
    /\ UNCHANGED <<turn_number, scheduler, owned, lost, sorted_ships, idx,
                   targeted_positions, decisions>>

\* game.end_turn(command_queue) and the end of the loop body (lines 186-189):
\* the locals of the turn go out of scope
EndTurn(turns) ==
    /\ pc = "end_turn"
    /\ \E more \in BOOLEAN :
        /\ more => \E t \in turns : t > turn_number
        /\ pc' = IF more THEN "update_frame" ELSE "done"
    /\ sorted_ships' = <<>>
    /\ idx' = 1
    /\ command_queue' = <<>>
    /\ targeted_positions' = {}
    /\ decisions' = <<>>
    /\ seen' = NoView
    /\ me_halite' = 0
    /\ shipyard_occupied' = FALSE
    /\ UNCHANGED <<turn_number, scheduler, owned, lost>>

\* ---------------------------------------------------------- specifications
\* a game of up to MaxShips ships over the turns of TurnValues
Next ==
    \/ UpdateFrame(1 .. MaxShips, TurnValues)
    \/ UpdateStatus
    \/ Decide(FALSE)
    \/ Spawn
    \/ EndTurn(TurnValues)

Spec == Init /\ [][Next]_vars

\* a fleet of up to MaxFleet ships in the turns of FleetTurnValues
NextFleet ==
    \/ UpdateFrame(1 .. MaxFleet, FleetTurnValues)
    \/ UpdateStatus
    \/ Decide(FALSE)
    \/ Spawn
    \/ EndTurn(FleetTurnValues)

\* a game of up to RunShips ships over the turns of TurnValues as the bot runs
\* it: main is sequential, every statement is executed as soon as the one
\* before it is over and update_frame returns once the engine has sent the
\* frame, so a step that can be taken is taken
NextRun ==
    \/ UpdateFrame(1 .. RunShips, TurnValues)
    \/ UpdateStatus
    \/ Decide(FALSE)
    \/ Spawn
    \/ EndTurn(TurnValues)

SpecRun == Init /\ [][NextRun]_vars /\ WF_vars(NextRun)

SpecFleet == Init /\ [][NextFleet]_vars

\* a fleet of up to MaxShips ships in the turns of FleetTurnValues, with the
\* view of the map of the ship decided last kept in seen
NextHarvest ==
    \/ UpdateFrame(1 .. MaxShips, FleetTurnValues)
    \/ UpdateStatus
    \/ Decide(TRUE)
    \/ Spawn
    \/ EndTurn(FleetTurnValues)

SpecHarvest == Init /\ [][NextHarvest]_vars

TypeOK ==
    /\ pc \in {"update_frame", "update_status", "should_return", "spawn",
               "end_turn", "done"}
    /\ returning_ships \subseteq 1 .. MaxFleet
    /\ current_returning_ship \in {NoShip} \cup (1 .. MaxFleet)
    /\ targeted_positions \subseteq Positions
    /\ Len(command_queue) <= Len(sorted_ships) + 1
    /\ idx \in 1 .. Len(sorted_ships) + 1

\* ------------------------------------------------------------ properties
InTurn == pc \in {"update_status", "should_return", "spawn", "end_turn"}
LoopDone == pc \in {"spawn", "end_turn"}

\* the ships of sorted_ships the loop has finished with
Processed == IF pc \in {"update_status", "should_return"} THEN idx - 1
             ELSE Len(sorted_ships)

UnitCommandsOf(id) ==
    {k \in 1 .. Len(command_queue) :
        command_queue[k].type \in {"move", "stay"} /\ command_queue[k].id = id}

ShipOf(id) == CHOOSE sh \in {sorted_ships[k] : k \in 1 .. Len(sorted_ships)} :
                  sh.id = id

Destination(c) == directional_offset(ShipOf(c.id).position, c.dir)

Moves == {k \in 1 .. Len(command_queue) : command_queue[k].type = "move"}

\* C1: in every turn each owned unit gets exactly one unit action (Move or
\* StayStill): once the loop is over every ship of the fleet has one command,
\* while it runs the ships done so far have one and the others none, and no
\* unit command names anything but a ship of the fleet.
C1_OneActionPerUnit ==
    /\ \A k \in 1 .. Len(sorted_ships) :
        Cardinality(UnitCommandsOf(sorted_ships[k].id)) =
            IF k <= Processed THEN 1 ELSE 0
    /\ LoopDone => Processed = Cardinality(owned)
    /\ \A k \in 1 .. Len(command_queue) :
        command_queue[k].type \in {"move", "stay"} => command_queue[k].id \in owned
    /\ InTurn => owned = {sorted_ships[k].id : k \in 1 .. Len(sorted_ships)}
                 /\ Len(sorted_ships) = Cardinality(owned)

\* a turn whose loop is over, with a returning ship that moves, a ship whose
\* move was downgraded by a conflict and a ship that harvests
C1_Witness ==
    /\ pc = "end_turn"
    /\ Len(sorted_ships) = 3
    /\ \E i \in 1 .. 3 : \E j \in 1 .. 3 : \E k \in 1 .. 3 :
        /\ decisions[i].branch = "return" /\ command_queue[i].type = "move"
        /\ decisions[j].want # NoPosition /\ command_queue[j].type = "stay"
        /\ decisions[k].branch \in {"collect", "stay"}

\* C2: the destination cells of the Move commands of a turn are pairwise
\* distinct, whatever directions naive_navigate returned.
C2_DistinctDestinations ==
    \A i \in Moves : \A j \in Moves :
        i # j => Destination(command_queue[i]) # Destination(command_queue[j])

\* two ships were committed moves to different cells and a third, whose
\* direction led to one of those cells, was not
C2_Witness ==
    /\ Cardinality(Moves) = 2
    /\ \E j \in 1 .. Len(decisions) :
        /\ command_queue[j].type = "stay"
        /\ \E i \in Moves : i < j /\ decisions[j].want = Destination(command_queue[i])

\* Stickiness of returning, as a condition on one step. A unit for which should_return has returned
\* true and which has not been seen on the shipyard since (sticky) gets true
\* again at its next classification, whatever it carries; its id leaves that
\* condition only in the status update of a turn in which it is on the
\* shipyard, and in such a turn its id is out of the returning set when it is
\* classified, so that rule 1 does not apply.
C3_Step ==
    /\ \A id \in sticky :
        \/ id \in sticky'
        \/ /\ pc = "update_status"
           /\ sorted_ships[idx].id = id
           /\ sorted_ships[idx].position = SHIPYARD
    /\ pc = "should_return" =>
        LET ship == sorted_ships[idx]
            d == decisions'[Len(decisions')]
        IN /\ d.id = ship.id
           /\ ship.id \in sticky => d.returning
           /\ d.returning => ship.id \in returning_ships' /\ ship.id \in sticky'
           /\ ship.position = SHIPYARD =>
                  ship.id \notin returning_ships /\ d.rule \in 2 .. 5

\* C3: every step of the loop keeps a classified unit returning until it is
\* seen on the shipyard (C3_Step holds of every step).
C3_Sticky == [][C3_Step]_vars

\* before the endgame a ship away from the shipyard that carries nothing is
\* classified returning because it was returning already
C3_Witness ==
    /\ InTurn
    /\ turn_number < MAX_TURNS - RETURN_THRESHOLD_TURNS
    /\ \E k \in 1 .. Len(decisions) :
        /\ decisions[k].returning
        /\ decisions[k].rule = 1
        /\ sorted_ships[k].halite = 0
        /\ sorted_ships[k].position # SHIPYARD

\* C4: at most one id is in the returning set because of the priority rule
\* (rule 4) without having been on the shipyard since, that id is the one in
\* the priority slot, and right after the status update of a unit that is on
\* the shipyard the slot does not hold that unit.
C4_OnePriorityReturner ==
    /\ Cardinality(rule4_ships) <= 1
    /\ rule4_ships \subseteq returning_ships
    /\ rule4_ships = IF current_returning_ship = NoShip THEN {}
                     ELSE {current_returning_ship}
    /\ pc = "should_return" /\ sorted_ships[idx].position = SHIPYARD =>
           current_returning_ship # sorted_ships[idx].id

\* while one ship holds the slot, the maximum carrier of a later turn, with
\* half of the capacity, is not classified returning
C4_Witness ==
    /\ InTurn
    /\ Cardinality(rule4_ships) = 1
    /\ Len(decisions) >= 1
    /\ ~decisions[1].returning
    /\ sorted_ships[1].halite * 2 >= MAX_HALITE
    /\ current_returning_ship # sorted_ships[1].id

\* The first-match order of should_return, as a condition on one step. With c1: id in the
\* returning set, c2: turn >= MAX_TURNS - 25, c3: carried >= 0.9 capacity,
\* c4: slot empty, unit first of the ordering and carried >= 0.5 capacity, the
\* result is c1 \/ c2 \/ c3 \/ c4; the id is inserted when the result is true;
\* the slot is set to the unit only when c4 is reached with c1, c2, c3 all
\* false; a false result changes neither the set nor the slot.
C5_Step ==
    pc = "should_return" =>
        LET ship == sorted_ships[idx]
            d == decisions'[Len(decisions')]
            c1 == ship.id \in returning_ships
            c2 == turn_number >= MAX_TURNS - 25
            c3 == ship.halite * 10 >= MAX_HALITE * 9
            c4 == /\ current_returning_ship = NoShip
                  /\ idx = 1
                  /\ ship.halite * 2 >= MAX_HALITE
        IN /\ d.returning = (c1 \/ c2 \/ c3 \/ c4)
           /\ returning_ships' = IF c1 \/ c2 \/ c3 \/ c4
                                 THEN returning_ships \cup {ship.id}
                                 ELSE returning_ships
           /\ current_returning_ship' = IF ~c1 /\ ~c2 /\ ~c3 /\ c4
                                        THEN ship.id
                                        ELSE current_returning_ship

\* C5: every call of should_return gives the result and the changes of the
\* first-match order (C5_Step holds of every step).
C5_FirstMatch == [][C5_Step]_vars

\* the maximum carrier was classified by the full-ship rule while the slot
\* was empty, and the slot is still empty
C5_Witness ==
    /\ InTurn
    /\ Len(decisions) >= 1
    /\ decisions[1].rule = 3
    /\ sorted_ships[1].halite * 2 >= MAX_HALITE
    /\ current_returning_ship = NoShip

\* C6: endgame recall. In a turn with turn_number >= MAX_TURNS - 25 every
\* unit classified so far is classified returning, is in the returning set
\* and is routed to the shipyard, units on the shipyard included.
C6_EndgameRecall ==
    turn_number >= MAX_TURNS - 25 =>
        \A k \in 1 .. Len(decisions) :
            /\ decisions[k].returning
            /\ decisions[k].branch = "return"
            /\ decisions[k].id \in returning_ships

\* in a turn after the first endgame turn a ship on the shipyard that
\* carries nothing is classified returning
C6_Witness ==
    /\ turn_number > MAX_TURNS - 25
    /\ \E k \in 1 .. Len(decisions) :
        /\ decisions[k].returning
        /\ sorted_ships[k].position = SHIPYARD
        /\ sorted_ships[k].halite = 0

Spawns == {k \in 1 .. Len(command_queue) : command_queue[k].type = "spawn"}

\* C7: a Spawn is in the action list of a turn iff turn_number <= 220, the
\* funds are at least the unit cost and the shipyard cell is unoccupied; it
\* is the only one, and it comes after the commands of all the units.
C7_SpawnDecision ==
    /\ pc # "end_turn" => Spawns = {}
    /\ pc = "end_turn" =>
        /\ Spawns # {} <=> /\ turn_number <= 220
                           /\ me_halite >= SHIP_COST
                           /\ ~shipyard_occupied
        /\ Cardinality(Spawns) <= 1
        /\ \A k \in Spawns : k = Len(command_queue) /\ k = Len(sorted_ships) + 1

\* a Spawn follows the commands of two ships, one of them returning
C7_Witness ==
    /\ pc = "end_turn"
    /\ Len(command_queue) = 3
    /\ command_queue[3].type = "spawn"
    /\ returning_ships # {}

\* the ships whose navigation step led to the same cell, the first carrying
\* strictly more than the second
Rivals ==
    {<<i, j>> \in (1 .. Len(decisions)) \X (1 .. Len(decisions)) :
        /\ decisions[i].want # NoPosition
        /\ decisions[i].want = decisions[j].want
        /\ sorted_ships[i].halite > sorted_ships[j].halite}

ClaimedBefore(i) ==
    \E m \in Moves : m < i /\ Destination(command_queue[m]) = decisions[i].want

\* C8 as stated: of two units whose desired step has the same destination,
\* the one carrying more is committed the Move and the other is given
\* StayStill.
C8_MoreLoadMoves ==
    \A r \in Rivals :
        /\ command_queue[r[1]].type = "move"
        /\ Destination(command_queue[r[1]]) = decisions[r[1]].want
        /\ command_queue[r[2]].type = "stay"

\* C8, amended: of two units whose desired step has the same destination, the
\* one carrying more is processed first and the one carrying less is given
\* StayStill; the one carrying more is committed the Move to that cell unless
\* a unit processed before it was committed a Move to the same cell, in which
\* case it is given StayStill too.
C8_MoreLoadFirst ==
    \A r \in Rivals :
        /\ r[1] < r[2]
        /\ command_queue[r[2]].type = "stay"
        /\ IF ClaimedBefore(r[1])
           THEN command_queue[r[1]].type = "stay"
           ELSE /\ command_queue[r[1]].type = "move"
                /\ Destination(command_queue[r[1]]) = decisions[r[1]].want

\* three ships with different loads whose steps lead to one cell: the first
\* moves, the other two stay
C8_Witness ==
    /\ Len(decisions) = 3
    /\ <<1, 2>> \in Rivals /\ <<2, 3>> \in Rivals
    /\ command_queue[1].type = "move"
    /\ command_queue[2].type = "stay"
    /\ command_queue[3].type = "stay"

\* C9 as stated: the processing order is descending carried resource with
\* the unit id as tiebreak.
C9_OrderedByLoadThenId ==
    \A i \in 1 .. Len(sorted_ships) : \A j \in 1 .. Len(sorted_ships) :
        i < j => \/ sorted_ships[i].halite > sorted_ships[j].halite
                 \/ /\ sorted_ships[i].halite = sorted_ships[j].halite
                    /\ sorted_ships[i].id < sorted_ships[j].id

\* C9, amended: the units of the fleet are processed, each once, in an order
\* of descending carried resource; the order of units that carry the same
\* amount is not fixed by their ids.
C9_OrderedByLoad ==
    /\ \A i \in 1 .. Len(sorted_ships) : \A j \in 1 .. Len(sorted_ships) :
        i < j => /\ sorted_ships[i].halite >= sorted_ships[j].halite
                 /\ sorted_ships[i].id # sorted_ships[j].id
    /\ InTurn => owned = {sorted_ships[k].id : k \in 1 .. Len(sorted_ships)}

\* two ships carry the same amount, the one with the larger id is processed
\* first and becomes the priority returner
C9_Witness ==
    /\ Len(sorted_ships) >= 2
    /\ Len(decisions) >= 1
    /\ sorted_ships[1].halite = sorted_ships[2].halite
    /\ sorted_ships[1].id > sorted_ships[2].id
    /\ decisions[1].rule = 4
    /\ current_returning_ship = sorted_ships[1].id

\* C10 as stated: after the units of a turn are processed the returning set
\* and the priority slot hold only ids of currently owned units.
C10_OnlyOwnedIds ==
    pc = "end_turn" =>
        /\ returning_ships \subseteq owned
        /\ current_returning_ship \in owned \cup {NoShip}

\* ------------------------------------------------- the ship just decided
\* In SpecHarvest the state after a step of Decide shows what the ship read.
JustDecided == seen # NoView
LastShip == sorted_ships[Len(decisions)]
LastDecision == decisions[Len(decisions)]
LastCommand == command_queue[Len(command_queue)]

\* the destinations of the moves committed before the ship just decided
ClaimedEarlier ==
    {Destination(command_queue[k]) : k \in {m \in Moves : m < Len(decisions)}}

\* the neighbours of the ship just decided, in the order of ALL_CARDINALS
Neighbour(k) == directional_offset(LastShip.position, ALL_CARDINALS[k])

\* C11: a unit that is not returning and whose own cell holds at least
\* MAX_HALITE / 10 is given StayStill, whatever its neighbours hold and whether
\* they are occupied, and claims no cell: the targeted set is what the moves
\* committed before it put there.
C11_RichCellStays ==
    (JustDecided /\ ~LastDecision.returning
       /\ seen.halite[LastShip.position] * 10 >= MAX_HALITE) =>
        /\ Len(command_queue) = Len(decisions)
        /\ LastCommand = StayStill(LastShip)
        /\ LastDecision.want = NoPosition
        /\ targeted_positions = ClaimedEarlier

\* a ship, not returning, on a cell of exactly MAX_HALITE / 10 stays although
\* a free neighbour holds more, after another ship was committed a move
C11_Witness ==
    /\ JustDecided /\ ~LastDecision.returning
    /\ seen.halite[LastShip.position] = MAX_HALITE \div 10
    /\ \E k \in 1 .. 4 :
        /\ seen.halite[Neighbour(k)] > seen.halite[LastShip.position]
        /\ ~is_occupied(seen, Neighbour(k))
    /\ LastCommand = StayStill(LastShip)
    /\ targeted_positions # {}

\* the neighbours the ship just decided may be sent to: not occupied and
\* holding strictly more than its own cell
Candidates ==
    {k \in 1 .. 4 : /\ ~is_occupied(seen, Neighbour(k))
                    /\ seen.halite[Neighbour(k)] > seen.halite[LastShip.position]}

\* C12: for a unit that is not returning and whose own cell holds less than
\* MAX_HALITE / 10, the target is the unoccupied neighbour holding the most
\* among those that hold strictly more than the unit's own cell, the first in
\* the order north, south, east, west among equals; an occupied neighbour is
\* never the target; with no such neighbour the target is the unit's own
\* position, the unit is given StayStill and claims no cell.
C12_RichestFreeNeighbour ==
    (JustDecided /\ ~LastDecision.returning
       /\ seen.halite[LastShip.position] * 10 < MAX_HALITE) =>
        IF Candidates = {}
        THEN /\ seen.target = LastShip.position
             /\ LastDecision.branch = "stay"
             /\ LastCommand = StayStill(LastShip)
             /\ targeted_positions = ClaimedEarlier
        ELSE /\ LastDecision.branch = "explore"
             /\ ~is_occupied(seen, seen.target)
             /\ \E k \in Candidates :
                 /\ seen.target = Neighbour(k)
                 /\ \A j \in Candidates :
                     /\ seen.halite[Neighbour(j)] <= seen.halite[Neighbour(k)]
                     /\ seen.halite[Neighbour(j)] = seen.halite[Neighbour(k)]
                            => k <= j

\* a ship on a cell of 50 with two different free neighbours that both hold
\* 200 is sent to the northern one
C12_Witness ==
    /\ JustDecided /\ ~LastDecision.returning
    /\ seen.halite[LastShip.position] = MAX_HALITE \div 20
    /\ Neighbour(1) # Neighbour(3)
    /\ {1, 3} \subseteq Candidates
    /\ seen.halite[Neighbour(1)] = seen.halite[Neighbour(3)]
    /\ seen.target = Neighbour(1)
    /\ LastCommand.type = "move"

\* The end of the loop as a condition on one step: no step is taken once the
\* loop is left, and the step of end_turn either leaves the loop or goes to
\* the update_frame of the next turn with the scheduler as it was and nothing
\* of the turn kept
C13_Step ==
    /\ pc # "done"
    /\ pc = "end_turn" =>
        /\ pc' \in {"update_frame", "done"}
        /\ UNCHANGED <<scheduler, turn_number>>
        /\ command_queue' = <<>>
    /\ turn_number' # turn_number => pc = "update_frame"
    /\ Len(command_queue') > Len(command_queue) =>
           pc \in {"should_return", "spawn"}

\* C13: once end_turn has returned false the loop is left: no frame is read,
\* no command is queued and the scheduler is not changed any more (no step at
\* all is taken); while end_turn returns true the loop goes on: from
\* update_frame the bot always gets to the processing of the next turn.
C13_LoopExit ==
    /\ [][C13_Step]_vars
    /\ (pc = "update_frame") ~> (pc \in {"update_status", "spawn"})

\* the loop was left in a later turn with ships still marked as returning
C13_Witness ==
    /\ pc = "done"
    /\ turn_number > RETURN_TO_BASE
    /\ returning_ships # {}
    /\ current_returning_ship # NoShip

C15_TargetedAreMoves ==
    /\ targeted_positions = {Destination(command_queue[k]) : k \in Moves}
    /\ Cardinality(targeted_positions) = Cardinality(Moves)
    /\ Len(decisions) = 0 => targeted_positions = {}

\* in a turn after the one in which the first ship was classified as returning
\* (and resolved its step), the second ship's step led to the cell the first
\* ship's move had taken and it was given StayStill: one cell is targeted
C15_Witness ==
    /\ pc = "end_turn"
    /\ Len(decisions) = 2
    /\ decisions[1].rule = 1
    /\ command_queue[1].type = "move"
    /\ command_queue[2].type = "stay"
    /\ decisions[2].want = Destination(command_queue[1])
    /\ targeted_positions = {decisions[2].want}

\* the unit commands of the turn and the cell each leaves its ship on
UnitCommands ==
    {k \in 1 .. Len(command_queue) : command_queue[k].type \in {"move", "stay"}}

ResultingCell(k) ==
    IF command_queue[k].type = "move" THEN Destination(command_queue[k])
    ELSE ShipOf(command_queue[k].id).position

StaysPut(k) == command_queue[k].type = "stay" \/ command_queue[k].dir = "o"

\* C16 as stated: no unit is committed a Move whose destination is the
\* current cell of another unit that is given StayStill (or a Move in
\* direction Still) in the same turn, whatever direction naive_navigate
\* returns.
C16_NoMoveOntoStayingUnit ==
    \A i \in Moves : \A j \in UnitCommands :
        (j # i /\ StaysPut(j)) =>
            Destination(command_queue[i]) # ResultingCell(j)

\* C16 (amended): two units of a turn are left on the same cell only if one
\* of them is committed a Move to the cell on which the other is given
\* StayStill; two Moves, a Move in direction Still included, never lead to the
\* same cell.
C16_SharedOnlyWithStayStill ==
    \A i \in UnitCommands : \A j \in UnitCommands :
        (i # j /\ ResultingCell(i) = ResultingCell(j)) =>
            {command_queue[i].type, command_queue[j].type} = {"move", "stay"}

\* a ship is committed a Move to the cell of a ship that harvests in place,
\* and another ship whose step led to that same cell is given StayStill
C16_Witness ==
    /\ pc = "end_turn"
    /\ \E i \in Moves : \E j \in UnitCommands : \E k \in UnitCommands :
        /\ decisions[j].branch \in {"collect", "stay"}
        /\ Destination(command_queue[i]) = ResultingCell(j)
        /\ k \notin {i, j}
        /\ command_queue[k].type = "stay"
        /\ decisions[k].want = Destination(command_queue[i])

\* C17: a unit classified as returning is sent to the shipyard and never
\* through the harvest policy: it is committed the Move of the step navigation
\* returned, or given StayStill when the destination of that step was claimed
\* before, also when its own cell holds MAX_HALITE / 10 or more or a neighbour
\* holds more; the harvest policy is applied to the units classified as not
\* returning, and only to them.
C17_ReturningGoesToBase ==
    JustDecided =>
        /\ LastDecision.returning <=> LastDecision.branch = "return"
        /\ LastDecision.returning =>
            /\ seen.target = SHIPYARD
            /\ LastDecision.want \in Positions
            /\ Len(command_queue) = Len(decisions)
            /\ LastCommand.id = LastShip.id
            /\ IF LastDecision.want \in ClaimedEarlier
               THEN /\ LastCommand = StayStill(LastShip)
                    /\ targeted_positions = ClaimedEarlier
               ELSE /\ LastCommand.type = "move"
                    /\ Destination(LastCommand) = LastDecision.want
                    /\ targeted_positions =
                           ClaimedEarlier \cup {LastDecision.want}

\* a returning ship whose own cell holds MAX_HALITE / 10 and that has a free
\* neighbour holding more is committed a Move, after the Move of another ship
C17_Witness ==
    /\ JustDecided /\ LastDecision.returning
    /\ seen.halite[LastShip.position] = MAX_HALITE \div 10
    /\ Candidates # {}
    /\ LastCommand.type = "move"
    /\ ClaimedEarlier # {}

\* C18: after every call of should_return and of update_status, a ship held in
\* the priority slot has its id in the returning set.
C18_SlotHolderIsReturning ==
    current_returning_ship # NoShip => current_returning_ship \in returning_ships

\* update_status has just been called for a ship on the shipyard, while
\* another ship, designated in an earlier turn, holds the slot
C18_Witness ==
    /\ pc = "should_return"
    /\ sorted_ships[idx].position = SHIPYARD
    /\ sorted_ships[idx].id \notin returning_ships
    /\ current_returning_ship \notin {NoShip, sorted_ships[idx].id}
    /\ current_returning_ship \in returning_ships
    /\ \A k \in 1 .. Len(decisions) : decisions[k].rule # 4

\* ------------------------------------------------- spawn and the shipyard
\* The spawn test (lines 179-183) reads the occupancy of the shipyard cell and
\* not targeted_positions. Whether a move committed to the shipyard makes that
\* cell occupied is decided inside naive_navigate, which is not part of
\* MyBot.cpp; the two statements below are what MyBot.cpp itself fixes.
\* No spawn is queued in a turn in which a ship of the fleet is on the
\* shipyard (such a ship, whether it stays or not, makes the cell occupied).
SpawnNotOntoOwnShip ==
    Spawns # {} => ~OwnAt(SHIPYARD) /\ ~shipyard_occupied

\* With an occupancy that shows only the ships of the frame, a spawn is queued
\* together with a move whose destination is the shipyard.
SpawnWithMoveToShipyard ==
    /\ Spawns # {}
    /\ \E i \in Moves : Destination(command_queue[i]) = SHIPYARD

====
